---- MODULE Spec2Model ----
(***************************************************************************)
(* shllm: a command line REPL that talks to an LLM and, when the session   *)
(* ends, appends the conversation to a JSON archive (src/shllm.go).        *)
(*                                                                         *)
(* File contents are sequences of JSON tokens.  json.Marshal produces the  *)
(* token sequence of a value and json.Unmarshal parses one; a short read   *)
(* or a short write is a prefix of a token sequence.                       *)
(***************************************************************************)
EXTENDS Integers, Sequences, FiniteSets, TLC

\* ------------------------------------------------------------------ bounds
\* Lines the user types before the line reader reports end of input.
MaxTurns == 2
\* Conversations already stored in the archive when the program starts.
MaxPrior == 2

\* ------------------------------------------------------------ JSON tokens
Tok(k, a, b, c) == [k |-> k, a |-> a, b |-> b, c |-> c]
ObjOpen == Tok("{", "", "", "")
ObjClose == Tok("}", "", "", "")
ListOpen == Tok("[", "", "", "")
ListClose == Tok("]", "", "", "")
ConvClose == Tok("}conv", "", "", "")
Junk == Tok("junk", "", "", "")

Prefix(b, n) == SubSeq(b, 1, n)

\* -------------------------------------------------------------- time.Now()
\* The clock of the host: a year within [0,9999], or one beyond it, which
\* time.Time's MarshalJSON refuses to format.
GoodTime == "2026-11-03T14:57:00Z"
BadTime == "year outside of range [0,9999]"

Now(clockOk) == IF clockOk THEN GoodTime ELSE BadTime

\* ---------------------------------------------------------------- the types
Message(role, content, timestamp) ==
    [role |-> role, content |-> content, timestamp |-> timestamp]

Conversation(messages, title) == [messages |-> messages, title |-> title]

ConversationList(version, conversations) ==
    [version |-> version, conversations |-> conversations]

\* ------------------------------------------------------------ json.Marshal
\* A float32 version is written in its shortest form: 1.0 is written "1".
FormatVersion(v) == IF v = 1 THEN "1" ELSE "0"

\* "1" and "1.0" both parse to 1; the field absent leaves the zero value.
ParseVersion(s) == IF s \in {"1", "1.0"} THEN 1 ELSE 0

MarshalMessage(m) == Tok("msg", m.role, m.content, m.timestamp)

RECURSIVE MarshalMessages(_)
MarshalMessages(ms) ==
    IF ms = <<>> THEN <<>>
    ELSE <<MarshalMessage(Head(ms))>> \o MarshalMessages(Tail(ms))

\* json.Marshal fails on a value it cannot represent: a timestamp out of range.
Representable(convo) ==
    \A i \in 1..Len(convo.messages) : convo.messages[i].timestamp # BadTime

MarshalConversation(convo) ==
    <<Tok("conv{", convo.title, "", "")>> \o MarshalMessages(convo.messages)
        \o <<ConvClose>>

RECURSIVE MarshalConversations(_)
MarshalConversations(cs) ==
    IF cs = <<>> THEN <<>>
    ELSE MarshalConversation(Head(cs)) \o MarshalConversations(Tail(cs))

\* json.Marshal(*convo): [err, data]
MarshalConvo(convo) ==
    IF Representable(convo)
    THEN [err |-> FALSE, data |-> MarshalConversation(convo)]
    ELSE [err |-> TRUE, data |-> <<>>]

\* json.Marshal(convoList): [err, data]; data is nil when err is set.
MarshalList(list) ==
    IF \A i \in 1..Len(list.conversations) : Representable(list.conversations[i])
    THEN [err |-> FALSE,
          data |-> <<ObjOpen, Tok("version", FormatVersion(list.version), "", ""),
                     ListOpen>>
                   \o MarshalConversations(list.conversations)
                   \o <<ListClose, ObjClose>>]
    ELSE [err |-> TRUE, data |-> <<>>]

\* The literal the program substitutes for a missing or empty file.
DefaultData == <<ObjOpen, Tok("version", "1.0", "", ""), ObjClose>>

\* ---------------------------------------------------------- json.Unmarshal
RECURSIVE MsgEnd(_, _)
MsgEnd(b, i) ==
    IF i <= Len(b) /\ b[i].k = "msg" THEN MsgEnd(b, i + 1) ELSE i

RECURSIVE UnmarshalMessages(_, _, _)
UnmarshalMessages(b, i, j) ==
    IF i >= j THEN <<>>
    ELSE <<Message(b[i].a, b[i].b, b[i].c)>> \o UnmarshalMessages(b, i + 1, j)

\* One conversation object starting at b[i]: [ok, convo, next].
ParseConversation(b, i) ==
    LET j == MsgEnd(b, i + 1) IN
    IF i <= Len(b) /\ b[i].k = "conv{" /\ j <= Len(b) /\ b[j] = ConvClose
    THEN [ok |-> TRUE,
          convo |-> Conversation(UnmarshalMessages(b, i + 1, j), b[i].a),
          next |-> j + 1]
    ELSE [ok |-> FALSE, convo |-> Conversation(<<>>, ""), next |-> i]

RECURSIVE ParseConversations(_, _, _)
ParseConversations(b, i, acc) ==
    IF i <= Len(b) /\ b[i].k = "conv{"
    THEN LET r == ParseConversation(b, i) IN
         IF r.ok THEN ParseConversations(b, r.next, Append(acc, r.convo))
         ELSE [ok |-> FALSE, convs |-> acc, next |-> i]
    ELSE [ok |-> TRUE, convs |-> acc, next |-> i]

\* json.Unmarshal(data, &convo) of a lone conversation: [err, convo]
UnmarshalConvo(b) ==
    LET r == ParseConversation(b, 1) IN
    IF r.ok /\ r.next = Len(b) + 1
    THEN [err |-> FALSE, convo |-> r.convo]
    ELSE [err |-> TRUE, convo |-> Conversation(<<>>, "")]

\* json.Unmarshal(data, &convoList): [err, list].  Both fields are optional;
\* an absent field leaves the zero value.
Unmarshal(b) ==
    LET bad == [err |-> TRUE, list |-> ConversationList(0, <<>>)]
        hasVer == Len(b) >= 2 /\ b[2].k = "version"
        p == IF hasVer THEN 3 ELSE 2
        ver == IF hasVer THEN ParseVersion(b[2].a) ELSE 0
    IN  IF Len(b) < 2 \/ b[1] # ObjOpen \/ b[Len(b)] # ObjClose THEN bad
        ELSE IF p = Len(b) THEN [err |-> FALSE, list |-> ConversationList(ver, <<>>)]
        ELSE IF b[p] # ListOpen THEN bad
        ELSE LET r == ParseConversations(b, p + 1, <<>>) IN
             IF r.ok /\ r.next = Len(b) - 1 /\ b[r.next] = ListClose
             THEN [err |-> FALSE, list |-> ConversationList(ver, r.convs)]
             ELSE bad

\* ------------------------------------------------------------------- files
NoFile == [exists |-> FALSE, bytes |-> <<>>]
File(b) == [exists |-> TRUE, bytes |-> b]

\* os.ReadFile(filePath): the outcomes [data, err].  A failure of open (for
\* example permission denied) returns no bytes; a failure while reading
\* returns the bytes read so far.
ReadFile(f) ==
    IF ~f.exists THEN {[data |-> <<>>, err |-> "notexist"]}
    ELSE {[data |-> f.bytes, err |-> "nil"]}
         \cup {[data |-> Prefix(f.bytes, n), err |-> "other"] : n \in 0..Len(f.bytes)}

\* How many tokens of b a write puts in the file: all of them, or it stops
\* short: before the first token, after it, or before the last one.
WriteCounts(b) == {n \in {0, 1, Len(b) - 1, Len(b)} : n >= 0 /\ n <= Len(b)}

\* os.WriteFile(filePath, data, 0644): the outcomes [file, err].  Open fails
\* and leaves the file alone; or open truncates and n tokens are written,
\* an error when n is short; or everything is written and close fails.
WriteFile(f, data) ==
    {[file |-> f, err |-> TRUE], [file |-> File(data), err |-> TRUE]}
    \cup {[file |-> File(Prefix(data, n)), err |-> (n < Len(data))]
            : n \in WriteCounts(data)}

\* tempFile.Write(b) on a file holding `held`: n tokens are appended at the
\* file offset; err is set when n is short.
TempWrite(held, b) ==
    {[bytes |-> held \o Prefix(b, n), nbytes |-> n, err |-> (n < Len(b))]
        : n \in WriteCounts(b)}

\* --------------------------------------------------------------- failWhale
WhaleOpenFailed == "the fail whale failed opening tempfile"
WhaleMarshalFailed == "the fail whale failed marshalling data"
WhaleWriteFailed == "the fail whale failed writing to tempfile"

\* The fallback of failWhale after the first write w: [temp, panic, first].
WhaleFallback(w, convo) ==
    LET first == IF w.nbytes = 0 THEN "zero" ELSE "partial"
        m == MarshalConvo(convo)
    IN  IF m.err
        THEN {[temp |-> File(w.bytes), panic |-> WhaleMarshalFailed, first |-> first]}
        ELSE {[temp |-> File(w2.bytes),
               panic |-> IF w2.err \/ w2.nbytes <= 0 THEN WhaleWriteFailed ELSE "",
               first |-> first] : w2 \in TempWrite(w.bytes, m.data)}

\* failWhale with the first write checked for an error only, not for having
\* written nothing.
failWhaleNoZeroCheck(writeData, convo) ==
    {[temp |-> NoFile, panic |-> WhaleOpenFailed, first |-> "none"]}
    \cup UNION {IF w.err
                THEN WhaleFallback(w, convo)
                ELSE {[temp |-> File(w.bytes), panic |-> "", first |-> "full"]}
                : w \in TempWrite(<<>>, writeData)}

\* failWhale(writeData, convo): the outcomes [temp, panic, first]; panic = ""
\* when it returns the name of the temporary file.
failWhale(writeData, convo) ==
    {[temp |-> NoFile, panic |-> WhaleOpenFailed, first |-> "none"]}
    \cup UNION {IF w.err \/ w.nbytes <= 0
                THEN WhaleFallback(w, convo)
                ELSE {[temp |-> File(w.bytes), panic |-> "", first |-> "full"]}
                : w \in TempWrite(<<>>, writeData)}

\* -------------------------------------------------------- saveConversation
ReadPanic == "error reading data. Your conversation was saved in the current directory: "
UnmarshalPanic == "error unmarshalling data. Your conversation was saved in the current directory: "
WritePanic == "error writing file. Your conversation was saved in the current directory: "

\* What one call did: what it left on disk, how it ended and by which path.
SaveResult(path, temp, panic, named, step, first, read, encodeErr) ==
    [path |-> path, temp |-> temp, panic |-> panic, named |-> named,
     step |-> step, first |-> first, read |-> read, encodeErr |-> encodeErr]

\* failWhaleFileName := failWhale(...); panic(fmt.Sprintf(msg, failWhaleFileName))
Recover(path, writeData, convo, msg, step, read, encodeErr) ==
    {SaveResult(path, w.temp, IF w.panic = "" THEN msg ELSE w.panic, w.panic = "",
                step, w.first, read, encodeErr)
     : w \in failWhale(writeData, convo)}

\* Lines 135-141: append, marshal (its error is dropped), write.
AppendAndWrite(f, list, convo, read) ==
    LET merged == [list EXCEPT !.conversations = Append(@, convo)]
        m == MarshalList(merged)
    IN  UNION {IF w.err
               THEN Recover(w.file, m.data, convo, WritePanic, "write", read, m.err)
               ELSE {SaveResult(w.file, NoFile, "", FALSE, "done", "none", read, m.err)}
               : w \in WriteFile(f, m.data)}

\* DecodeAndWrite starting over from the default archive when the bytes read
\* do not parse.
DecodeAndWriteReset(f, data, convo, read) ==
    LET u == Unmarshal(data) IN
    IF u.err
    THEN AppendAndWrite(f, Unmarshal(DefaultData).list, convo, read)
    ELSE AppendAndWrite(f, u.list, convo, read)

\* Lines 129-133: unmarshal the bytes read, or the default.
DecodeAndWrite(f, data, convo, read) ==
    LET u == Unmarshal(data) IN
    IF u.err
    THEN Recover(f, <<>>, convo, UnmarshalPanic, "unmarshal", read, FALSE)
    ELSE AppendAndWrite(f, u.list, convo, read)

\* AfterRead with only a missing file replaced by the default, not an empty one.
AfterReadNoEmptyCheck(f, r, convo) ==
    LET read == [err |-> r.err, n |-> Len(r.data)] IN
    IF r.err = "notexist"
    THEN DecodeAndWrite(f, DefaultData, convo, read)
    ELSE IF r.err # "nil"
    THEN Recover(f, <<>>, convo, ReadPanic, "read", read, FALSE)
    ELSE DecodeAndWrite(f, r.data, convo, read)

\* Lines 122-128: which branch a read outcome takes.
AfterRead(f, r, convo) ==
    LET read == [err |-> r.err, n |-> Len(r.data)] IN
    IF r.err = "notexist" \/ Len(r.data) = 0
    THEN DecodeAndWrite(f, DefaultData, convo, read)
    ELSE IF r.err # "nil"
    THEN Recover(f, <<>>, convo, ReadPanic, "read", read, FALSE)
    ELSE DecodeAndWrite(f, r.data, convo, read)

\* saveConversation(filePath, convo): every outcome of one call on file f.
saveConversation(f, convo) ==
    UNION {AfterRead(f, r, convo) : r \in ReadFile(f)}

\* ---------------------------------------------------------- llmUpdateConvo
\* What the HTTP exchange hands back: a transport or parse failure, or the
\* reply candidates ("choices") of a well-formed response.
Reply == Message("assistant", "hi there", "")
Responses ==
    {[fail |-> f, choices |-> <<>>]
        : f \in {"network failure", "failure to read body", "malformed response!"}}
    \cup {[fail |-> "", choices |-> c] : c \in {<<>>, <<Reply>>, <<Reply, Reply>>}}

\* llmUpdateConvo skipping a response without reply candidates.
llmUpdateConvoSkipEmpty(c, resp, now) ==
    LET fails(msg) == [panic |-> msg, convo |-> c] IN
    IF MarshalConvo(c).err THEN fails("couldn't marshal json")
    ELSE IF resp.fail # "" THEN fails(resp.fail)
    ELSE IF ~(Len(resp.choices) >= 0 /\ Len(resp.choices) <= 1)
    THEN fails("assertion failed: len(choices)")
    ELSE IF Len(resp.choices) = 0
    THEN [panic |-> "", convo |-> c]
    ELSE [panic |-> "",
          convo |-> [c EXCEPT !.messages =
                        Append(@, [resp.choices[1] EXCEPT !.timestamp = now])]]

\* llmUpdateConvo(convo) on response resp at time now: [panic, convo];
\* panic = "" when it returns.
llmUpdateConvo(c, resp, now) ==
    LET fails(msg) == [panic |-> msg, convo |-> c] IN
    IF MarshalConvo(c).err THEN fails("couldn't marshal json")
    ELSE IF resp.fail # "" THEN fails(resp.fail)
    ELSE IF ~(Len(resp.choices) >= 0 /\ Len(resp.choices) <= 1)
    THEN fails("assertion failed: len(choices)")
    ELSE IF Len(resp.choices) = 0
    THEN fails("runtime error: index out of range [0] with length 0")
    ELSE [panic |-> "",
          convo |-> [c EXCEPT !.messages =
                        Append(@, [resp.choices[1] EXCEPT !.timestamp = now])]]

\* -------------------------------------------------------------------- main
VARIABLES
    pc,           \* where main is: "readline", "exchange", "unwind", "exit"
    convo,        \* the session's Conversation
    deferred,     \* main's deferred calls, the next to run first
    panicking,    \* the panic being unwound, "" when none
    clockOk,      \* whether the host clock formats as RFC 3339
    archiveFile,  \* the file at filePath
    tempFile,     \* the recovery file in the current directory
    archive0,     \* the file at filePath when the program started
    appended,     \* every message appended to the session, in order
    exchange,     \* the last call of llmUpdateConvo: input, response, result
    saves         \* the calls of saveConversation: argument and result

vars == <<pc, convo, deferred, panicking, clockOk, archiveFile, tempFile,
          archive0, appended, exchange, saves>>

SessionTitle == "my_session"
UserLines == {"hello"}

\* Conversations of earlier sessions.
PriorConvos ==
    {Conversation(<<Message("user", "ping", GoodTime)>>, "old_a"),
     Conversation(<<>>, "old_b")}

RECURSIVE SeqsUpTo(_, _)
SeqsUpTo(S, n) ==
    IF n = 0 THEN {<<>>}
    ELSE LET shorter == SeqsUpTo(S, n - 1) IN
         shorter \cup {Append(q, x) : q \in shorter, x \in S}

\* What can be at filePath when the program starts: nothing, an empty file,
\* bytes that are no JSON archive, "{}", or an archive of earlier sessions.
InitialFiles ==
    {NoFile, File(<<>>), File(<<Junk>>), File(<<ObjOpen, ListOpen>>),
     File(<<ObjOpen, ObjClose>>)}
    \cup {File(MarshalList(ConversationList(1, cs)).data)
            : cs \in SeqsUpTo(PriorConvos, MaxPrior)}

NoExchange == [called |-> FALSE, input |-> Conversation(<<>>, ""),
               choices |-> 0, panic |-> "", output |-> Conversation(<<>>, "")]

\* Lines 241-251: the state when the loop is entered.
Init ==
    /\ pc = "readline"
    /\ convo = Conversation(<<>>, SessionTitle)
    /\ deferred = <<"saveConversation", "rl.Close">>
    /\ panicking = ""
    /\ clockOk \in BOOLEAN
    /\ archiveFile \in InitialFiles
    /\ tempFile = NoFile
    /\ archive0 = archiveFile
    /\ appended = <<>>
    /\ exchange = NoExchange
    /\ saves = <<>>

\* Lines 254, 258: a line is read and the user's message appended.
ReadLine ==
    /\ pc = "readline"
    /\ Len(appended) < 2 * MaxTurns
    /\ \E line \in UserLines :
         LET m == Message("user", line, Now(clockOk)) IN
         /\ convo' = [convo EXCEPT !.messages = Append(@, m)]
         /\ appended' = Append(appended, m)
    /\ pc' = "exchange"
    /\ UNCHANGED <<deferred, panicking, clockOk, archiveFile, tempFile, archive0,
                   exchange, saves>>

\* Lines 254-257: the line reader returns an error (end of input, interrupt);
\* the loop breaks and main returns.
ReadLineError ==
    /\ pc = "readline"
    /\ pc' = "unwind"
    /\ UNCHANGED <<convo, deferred, panicking, clockOk, archiveFile, tempFile,
                   archive0, appended, exchange, saves>>

\* AfterExchange ending the process on a failed exchange without unwinding.
AfterExchangeFatal(r) ==
    IF r.panic # ""
    THEN /\ pc' = "exit"
         /\ panicking' = r.panic
         /\ UNCHANGED <<convo, appended>>
    ELSE /\ pc' = "readline"
         /\ convo' = r.convo
         /\ appended' = Append(appended, r.convo.messages[Len(r.convo.messages)])
         /\ UNCHANGED panicking

\* What main does with the outcome r of llmUpdateConvo (lines 259-262): the
\* assignment happens only when the call returns.
AfterExchange(r) ==
    IF r.panic # ""
    THEN /\ pc' = "unwind"
         /\ panicking' = r.panic
         /\ UNCHANGED <<convo, appended>>
    ELSE /\ pc' = "readline"
         /\ convo' = r.convo
         /\ appended' = Append(appended, r.convo.messages[Len(r.convo.messages)])
         /\ UNCHANGED panicking

\* Line 259: convo = llmUpdateConvo(convo)
Exchange ==
    /\ pc = "exchange"
    /\ \E resp \in Responses :
         LET r == llmUpdateConvo(convo, resp, Now(clockOk)) IN
         /\ exchange' = [called |-> TRUE, input |-> convo,
                         choices |-> IF resp.fail = "" THEN Len(resp.choices) ELSE -1,
                         panic |-> r.panic, output |-> r.convo]
         /\ AfterExchange(r)
    /\ UNCHANGED <<deferred, clockOk, archiveFile, tempFile, archive0, saves>>

\* Line 251: the deferred saveConversation(filePath, &convo) runs, on return
\* and on panic alike; a panic of its own replaces the one being unwound.
RunSave ==
    /\ pc = "unwind"
    /\ deferred # <<>> /\ Head(deferred) = "saveConversation"
    /\ \E r \in saveConversation(archiveFile, convo) :
         /\ archiveFile' = r.path
         /\ tempFile' = r.temp
         /\ panicking' = IF r.panic # "" THEN r.panic ELSE panicking
         /\ saves' = Append(saves, [arg |-> convo, result |-> r])
    /\ deferred' = Tail(deferred)
    /\ UNCHANGED <<pc, convo, clockOk, archive0, appended, exchange>>

\* Line 247: the deferred rl.Close() runs.
RunClose ==
    /\ pc = "unwind"
    /\ deferred # <<>> /\ Head(deferred) = "rl.Close"
    /\ deferred' = Tail(deferred)
    /\ UNCHANGED <<pc, convo, panicking, clockOk, archiveFile, tempFile, archive0,
                   appended, exchange, saves>>

\* No deferred call is left: the process ends.
Exit ==
    /\ pc = "unwind"
    /\ deferred = <<>>
    /\ pc' = "exit"
    /\ UNCHANGED <<convo, deferred, panicking, clockOk, archiveFile, tempFile,
                   archive0, appended, exchange, saves>>

Next == ReadLine \/ ReadLineError \/ Exchange \/ RunSave \/ RunClose \/ Exit

Spec == Init /\ [][Next]_vars

\* ------------------------------------------------------------- properties
Saved == Len(saves) = 1
TheSave == saves[1].result
TheConvo == saves[1].arg

\* The archive that was at filePath when the program started, decoded.
Prior == Unmarshal(archive0.bytes)
PriorDecodes == archive0.exists /\ ~Prior.err
PriorUnparseable == archive0.exists /\ archive0.bytes # <<>> /\ Prior.err

\* File f decodes to conversation c, alone or within a full archive.
Holds(f, c) ==
    /\ f.exists
    /\ \/ /\ ~UnmarshalConvo(f.bytes).err
          /\ UnmarshalConvo(f.bytes).convo = c
       \/ /\ ~Unmarshal(f.bytes).err
          /\ \E i \in 1..Len(Unmarshal(f.bytes).list.conversations) :
                Unmarshal(f.bytes).list.conversations[i] = c

WhalePanics == {WhaleOpenFailed, WhaleMarshalFailed, WhaleWriteFailed}

\* C1: when the existing archive decodes to N conversations and
\* saveConversation returns without failure, the file decodes to N+1
\* conversations: the N previous ones in order, then the new one.
C1_AppendPreservesHistory ==
    (Saved /\ PriorDecodes /\ TheSave.panic = "")
        => /\ ~Unmarshal(archiveFile.bytes).err
           /\ Unmarshal(archiveFile.bytes).list.conversations
                = Append(Prior.list.conversations, TheConvo)

\* The append of C1 where the read did not fail and the merged archive
\* serialized: the N previous conversations, in order, then the new one.
AppendPreservesHistoryWhenRead ==
    (Saved /\ PriorDecodes /\ TheSave.panic = ""
           /\ TheSave.read.err = "nil" /\ ~TheSave.encodeErr)
        => /\ ~Unmarshal(archiveFile.bytes).err
           /\ Unmarshal(archiveFile.bytes).list
                = ConversationList(Prior.list.version,
                                   Append(Prior.list.conversations, TheConvo))

\* C2: with no file at the path, or a file of zero bytes, and no other
\* failure, the file ends holding an archive of version 1.0 with exactly the
\* new conversation, and the recovery path is not invoked.
C2_MissingAndEmptyAlike ==
    (Saved /\ (~archive0.exists \/ archive0.bytes = <<>>)
           /\ TheSave.read.err # "other" /\ TheSave.step # "write"
           /\ ~TheSave.encodeErr)
        => /\ TheSave.panic = ""
           /\ archiveFile.exists
           /\ ~Unmarshal(archiveFile.bytes).err
           /\ Unmarshal(archiveFile.bytes).list = ConversationList(1, <<TheConvo>>)
           /\ TheSave.first = "none"
           /\ tempFile = NoFile

C2_Witness ==
    /\ Saved /\ archive0 = File(<<>>) /\ TheSave.read.err = "nil"
    /\ TheSave.panic = "" /\ ~TheSave.encodeErr
    /\ Len(TheConvo.messages) = 2

\* C3 as stated: when the bytes read from the archive are non-empty and do
\* not parse, saveConversation fails with an error that names a recovery
\* file, which exists and decodes to the new conversation.
C3_CorruptArchiveAlwaysNamesRecovery ==
    (Saved /\ PriorUnparseable /\ TheSave.read.err = "nil")
        => /\ TheSave.panic # ""
           /\ TheSave.named
           /\ Holds(tempFile, TheConvo)

\* C3 as amended: when the bytes read from the archive are non-empty and do
\* not parse, saveConversation fails; either the recovery path itself failed
\* (no temporary file, the conversation does not serialize, or the fallback
\* write was short) and the error says so, or the error names a recovery
\* file that exists and holds exactly the new conversation's serialization.
C3_CorruptArchiveRecovered ==
    (Saved /\ PriorUnparseable /\ TheSave.read.err = "nil")
        => /\ TheSave.panic # ""
           /\ IF TheSave.named
              THEN /\ TheSave.panic = UnmarshalPanic
                   /\ tempFile.exists
                   /\ ~UnmarshalConvo(tempFile.bytes).err
                   /\ UnmarshalConvo(tempFile.bytes).convo = TheConvo
              ELSE TheSave.panic \in WhalePanics

C3_Witness ==
    /\ Saved /\ archive0 = File(<<Junk>>) /\ TheSave.read.err = "nil"
    /\ TheSave.named /\ TheSave.panic = UnmarshalPanic
    /\ Len(TheConvo.messages) = 2
    /\ tempFile = File(MarshalConversation(TheConvo))

\* C4: on every failure to read the existing file other than "does not
\* exist", also one that returns no bytes, saveConversation takes the
\* recovery path and fails; it never goes on to write to the path.  (Stated
\* for a file that has content.)
C4_ReadFailureRecovers ==
    (Saved /\ TheSave.read.err = "other" /\ archive0.bytes # <<>>)
        => /\ TheSave.step = "read"
           /\ TheSave.panic # ""
           /\ archiveFile = archive0

\* C5: when the write of the merged archive fails and a recovery file is
\* named, that file decodes to the new conversation; when the first recovery
\* write failed or wrote nothing it holds the serialization of the new
\* conversation alone.
C5_WriteFailureRecovered ==
    (Saved /\ TheSave.step = "write" /\ TheSave.named)
        => /\ Holds(tempFile, TheConvo)
           /\ TheSave.first \in {"zero", "partial"}
                => tempFile.bytes = MarshalConversation(TheConvo)

\* C6: however the loop ends (end of input or read error, or a failing model
\* exchange), saveConversation is invoked exactly once, with the conversation
\* holding every message appended so far, in order.
C6_SavedExactlyOnce ==
    /\ Len(saves) <= 1
    /\ Saved => TheConvo = Conversation(appended, SessionTitle)
    /\ (pc = "exit" \/ (pc = "unwind" /\ deferred = <<>>)) => Saved

C6_Witness ==
    /\ pc = "exit" /\ Saved
    /\ exchange.called /\ exchange.panic = "network failure"
    /\ Len(appended) = 3
    /\ TheConvo.messages = appended

\* C7: llmUpdateConvo on a conversation of k messages fails or returns k+1
\* messages, the first k unchanged; with zero reply candidates, or more than
\* one, it fails.
C7_ExchangeAddsOneOrFails ==
    exchange.called =>
        LET k == Len(exchange.input.messages) IN
        /\ \/ exchange.panic # ""
           \/ /\ Len(exchange.output.messages) = k + 1
              /\ SubSeq(exchange.output.messages, 1, k) = exchange.input.messages
        /\ (exchange.choices >= 0 /\ exchange.choices # 1) => exchange.panic # ""

C7_Witness ==
    /\ exchange.called /\ clockOk
    /\ exchange.choices = 0
    /\ exchange.panic # ""
    /\ pc = "unwind"

\* C8: saveConversation returns without signalling an error only if the file
\* then decodes to an archive whose last conversation is the new one.
C8_NothingSwallowed ==
    (Saved /\ TheSave.panic = "")
        => /\ archiveFile.exists
           /\ ~Unmarshal(archiveFile.bytes).err
           /\ LET cs == Unmarshal(archiveFile.bytes).list.conversations IN
              cs # <<>> /\ cs[Len(cs)] = TheConvo

\* C9: when the existing archive decoded and the write of the merged archive
\* fails, then whenever a recovery file is reported every previously stored
\* conversation and the new one are still on disk, in the file at the path
\* or in the recovery file.  (Stated for the outcomes in which the first
\* recovery write was all or nothing.)
C9_NoLossOnWriteFailure ==
    (Saved /\ PriorDecodes /\ TheSave.read.err = "nil"
           /\ TheSave.step = "write" /\ TheSave.named
           /\ TheSave.first # "partial")
        => /\ Holds(archiveFile, TheConvo) \/ Holds(tempFile, TheConvo)
           /\ \A i \in 1..Len(Prior.list.conversations) :
                \/ Holds(archiveFile, Prior.list.conversations[i])
                \/ Holds(tempFile, Prior.list.conversations[i])

\* C10: when saveConversation fails before the write step (the bytes read do
\* not parse, or the read failed after returning some bytes), the file at the
\* path is left exactly as it was.
C10_FailureBeforeWriteLeavesPath ==
    (Saved /\ \/ PriorUnparseable /\ TheSave.read.err = "nil"
              \/ TheSave.read.err = "other" /\ TheSave.read.n > 0)
        => /\ TheSave.panic # ""
           /\ TheSave.step \in {"read", "unmarshal"}
           /\ archiveFile = archive0

C10_Witness ==
    /\ Saved /\ TheSave.read.err = "other" /\ TheSave.read.n > 0
    /\ Len(Prior.list.conversations) = 2 /\ ~Prior.err
    /\ TheSave.named /\ tempFile = File(MarshalConversation(TheConvo))
    /\ archiveFile = archive0
====
